---------------------------- MODULE Spec2Model ----------------------------
(***************************************************************************)
(* The exception hierarchy of Quantum++ (include/classes/exception.h):     *)
(* the base class qpp::exception::Exception, its 30 fixed descendants and  *)
(* CustomException, together with the callers that construct error values, *)
(* ask them for type_description() and what(), and read the text what()    *)
(* hands back.                                                             *)
(*                                                                         *)
(* std::string is a TLC string; operator+= is concatenation.               *)
(***************************************************************************)
EXTENDS Integers, Sequences, FiniteSets, TLC

\* Number of error values that can be alive at once.
MaxObjs == 1
\* Number of independent execution contexts (callers).
NThreads == 2

Objs == 1..MaxObjs
Threads == 1..NThreads

\* Origin strings handed to the constructors: empty, and one with leading
\* and trailing blanks and the punctuation what() itself uses.
Origins == {"", " foo::bar: "}
\* Detail strings handed to CustomException's constructor.
Details == {"", "negative: probability!"}

\* The classes derived from Exception that inherit its constructor, each
\* with the string its override of type_description() returns.
Overrides ==
    [
     Unknown |-> "UNKNOWN EXCEPTION",
     ZeroSize |-> "Object has zero size",
     MatrixNotSquare |-> "Matrix is not square",
     MatrixNotCvector |-> "Matrix is not a column vector",
     MatrixNotRvector |-> "Matrix is not a row vector",
     MatrixNotVector |-> "Matrix is not a vector",
     MatrixNotSquareNorCvector |-> "Matrix is not square nor column vector",
     MatrixNotSquareNorRvector |-> "Matrix is not square nor row vector",
     MatrixNotSquareNorVector |-> "Matrix is not square nor vector",
     MatrixMismatchSubsys |-> "Matrix mismatch subsystems",
     DimsInvalid |-> "Invalid dimension(s)",
     DimsNotEqual |-> "Dimensions not equal",
     DimsMismatchMatrix |-> "Dimension(s) mismatch matrix size",
     DimsMismatchCvector |-> "Dimension(s) mismatch column vector size",
     DimsMismatchRvector |-> "Dimension(s) mismatch row vector size",
     DimsMismatchVector |-> "Dimension(s) mismatch vector size",
     SubsysMismatchDims |-> "Subsystems mismatch dimensions",
     PermInvalid |-> "Invalid permutation",
     PermMismatchDims |-> "Permutation mismatch dimensions",
     NotQubitMatrix |-> "Matrix is not 2 x 2",
     NotQubitCvector |-> "Column vector is not 2 x 1",
     NotQubitRvector |-> "Row vector is not 1 x 2",
     NotQubitVector |-> "Vector is not 2 x 1 nor 1 x 2",
     NotQubitSubsys |-> "Subsystems are not qubits",
     NotBipartite |-> "Not bi-partite",
     NoCodeword |-> "Codeword does not exist",
     OutOfRange |-> "Parameter out of range",
     TypeMismatch |-> "Type mismatch",
     SizeMismatch |-> "Size mismatch",
     UndefinedType |-> "Not defined for this type"
    ]

FixedKinds == DOMAIN Overrides

Custom == "CustomException"
Kinds == FixedKinds \cup {Custom}

\* The kinds the concurrent callers of SpecConc construct: what() and
\* type_description() read the same fields for every fixed kind, so one of
\* them stands for all; CustomException also reads what_.
ConcKinds == {"Unknown"}
\* The caller of the sequential program.
Main == 1

\* No error value in this slot.
NoObj == [kind |-> "none"]
\* The pointer what() returns designates the storage of one call frame.
NullPtr == 0
\* What a read through a pointer to destroyed storage can deliver besides
\* the bytes left behind: anything else (reused memory, a trap).
Clobbered == "<indeterminate>"

VARIABLES
    objs,   \* objs[o]: the error value in slot o (kind, where_, what_) or NoObj
    ctor,   \* ctor[o]: the arguments objs[o] was constructed with
    thr,    \* thr[t]: caller t: where it is in what(), and the results it holds
    msg_    \* msg_[f]: the local std::string msg_ of what() in call frame f

vars == <<objs, ctor, thr, msg_>>

----------------------------------------------------------------------------
\* std::string::operator+=
StrAppend(s, x) == s \o x

\* A constructor that strips blanks from the origin before storing it.
Exception_Trimmed(where) ==
    [where_ |-> IF where = " foo::bar: " THEN "foo::bar:" ELSE where]

\* Exception::Exception(const std::string& where) : where_{where}
Exception(where) == [where_ |-> where]

\* A class that inherits the constructor (using Exception::Exception).
FixedException(k, where) ==
    [kind |-> k, where_ |-> Exception(where).where_]

\* CustomException(where, what) : Exception{where}, what_{what}
CustomException(where, what) ==
    [kind |-> Custom, where_ |-> Exception(where).where_, what_ |-> what]

\* The body of Exception::type_description, which no constructible class uses.
Exception_type_description == "qpp::exception::Exception"

\* An override that puts a colon after the prefix.
CustomException_type_description_Colon(e) == "CUSTOM EXCEPTION: " \o e.what_

\* CustomException::type_description
CustomException_type_description(e) == "CUSTOM EXCEPTION " \o e.what_

\* One override returns its text in another spelling.
type_description_Respelled(e) ==
    IF e.kind = Custom THEN CustomException_type_description(e)
    ELSE IF e.kind = "DimsMismatchRvector"
         THEN "Dimensions mismatch row vector size"
         ELSE Overrides[e.kind]

\* One override was copied from its neighbour and its text left as it was.
type_description_Copied(e) ==
    IF e.kind = Custom THEN CustomException_type_description(e)
    ELSE IF e.kind = "MatrixNotRvector"
         THEN Overrides.MatrixNotCvector
         ELSE Overrides[e.kind]

\* The override of Unknown returns the prefix of CustomException's.
type_description_CustomPrefix(e) ==
    IF e.kind = Custom THEN CustomException_type_description(e)
    ELSE IF e.kind = "Unknown"
         THEN "CUSTOM EXCEPTION "
         ELSE Overrides[e.kind]

\* The virtual call e.type_description(): the override of e's class.
type_description(e) ==
    IF e.kind = Custom
    THEN CustomException_type_description(e)
    ELSE Overrides[e.kind]

\* msg_ declared static and never cleared: a call starts from the
\* characters the previous call of the same caller left in it.
what_88_90_NotCleared(e) ==
    (IF thr[Main].msg = <<>> THEN "" ELSE thr[Main].msg[1])
        \o "IN " \o e.where_

\* what(), lines 88-90: std::string msg_; msg_ += "IN "; msg_ += where_;
what_88_90(e) == StrAppend(StrAppend("", "IN "), e.where_)

\* The separator written without its blank.
what_91_92_NoBlank(m, e) == (m \o ":") \o type_description(e)

\* what(), lines 91-92: msg_ += ": "; msg_ += this->type_description();
what_91_92(m, e) == StrAppend(StrAppend(m, ": "), type_description(e))

\* what(), line 93: msg_ += "!";
what_93(m) == StrAppend(m, "!")

\* The characters msg_ holds at line 94 when nothing else runs in between.
Exception_what(e) == what_93(what_91_92(what_88_90(e), e))

\* msg_ declared static: one string shared by every call.
FrameOf_Static(t) == 1

\* msg_ is an automatic variable: every call of what() has its own, in the
\* frame of the calling context.
FrameOf(t) == t

\* A frame in which no msg_ exists (outside what(), and once it is destroyed).
NoFrame == [live |-> FALSE, data |-> ""]

\* A caller outside any call that holds no result.  Its fields:
\*   pc    "ready", or the line of what() it is about to execute
\*   self  the slot of the error value it refers to (0: none)
\*   of    the constructor arguments of the value its results came from
\*   td    <<the std::string the last type_description() returned>>
\*   msg   <<the characters msg_ held when the last what() returned>>
\*   ptr   the const char* the last what() returned
\*   txt   <<the characters the caller read through ptr>>
\*   again whether the last call repeated one whose result was still held:
\*         "same" value, another value with "equal" arguments, or "no"
Fresh == [pc |-> "ready", self |-> 0, of |-> NoObj, td |-> <<>>,
          msg |-> <<>>, ptr |-> NullPtr, txt |-> <<>>, again |-> "no"]

\* Caller c turns to the value in slot o: results of a value constructed
\* with other arguments are dropped.
Attend(c, o) ==
    IF c.of = ctor[o]
    THEN [c EXCEPT !.self = o]
    ELSE [Fresh EXCEPT !.self = o, !.of = ctor[o]]

\* How a call on slot o relates to the result r the caller c holds.
Repeats(c, o, r) ==
    IF r = <<>> \/ c.of # ctor[o] THEN "no"
    ELSE IF c.self = o THEN "same" ELSE "equal"

----------------------------------------------------------------------------
Init ==
    /\ objs = [o \in Objs |-> NoObj]
    /\ ctor = [o \in Objs |-> NoObj]
    /\ thr = [t \in Threads |-> Fresh]
    /\ msg_ = [f \in Threads |-> NoFrame]

\* A validating routine constructs a fixed-kind error value: K(where).
Construct(o, k, where) ==
    /\ objs[o] = NoObj
    /\ objs' = [objs EXCEPT ![o] = FixedException(k, where)]
    /\ ctor' = [ctor EXCEPT ![o] = [kind |-> k, where |-> where]]
    /\ UNCHANGED <<thr, msg_>>

\* A validating routine constructs CustomException(where, what).
ConstructCustom(o, where, what) ==
    /\ objs[o] = NoObj
    /\ objs' = [objs EXCEPT ![o] = CustomException(where, what)]
    /\ ctor' = [ctor EXCEPT ![o] =
                   [kind |-> Custom, where |-> where, what |-> what]]
    /\ UNCHANGED <<thr, msg_>>

\* The error value is discarded once handled.  No call on it is running;
\* the handler's reference to it and the pointer got from it go out of
\* scope, the strings copied from it stay with the caller.
Destroy(o) ==
    /\ objs[o] # NoObj
    /\ \A t \in Threads : thr[t].self = o => thr[t].pc = "ready"
    /\ objs' = [objs EXCEPT ![o] = NoObj]
    /\ ctor' = [ctor EXCEPT ![o] = NoObj]
    /\ thr' = [t \in Threads |->
                 IF thr[t].self = o
                 THEN [thr[t] EXCEPT !.self = 0, !.ptr = NullPtr,
                                     !.txt = <<>>, !.again = "no"]
                 ELSE thr[t]]
    /\ UNCHANGED msg_

\* type_description() of CustomException moves what_ into its result and
\* leaves it empty.
CallTypeDescription_Consuming(t, o) ==
    /\ thr[t].pc = "ready"
    /\ objs[o] # NoObj
    /\ thr' = [thr EXCEPT ![t] =
                 [Attend(thr[t], o) EXCEPT
                    !.td = <<type_description(objs[o])>>,
                    !.again = Repeats(thr[t], o, thr[t].td)]]
    /\ objs' = [objs EXCEPT ![o] =
                   IF @.kind = Custom THEN [@ EXCEPT !.what_ = ""] ELSE @]
    /\ UNCHANGED <<ctor, msg_>>

\* Caller t calls e.type_description() and receives a std::string by value.
CallTypeDescription(t, o) ==
    /\ thr[t].pc = "ready"
    /\ objs[o] # NoObj
    /\ thr' = [thr EXCEPT ![t] =
                 [Attend(thr[t], o) EXCEPT
                    !.td = <<type_description(objs[o])>>,
                    !.again = Repeats(thr[t], o, thr[t].td)]]
    /\ UNCHANGED <<objs, ctor, msg_>>

\* Line 90 written msg_ += std::move(where_): where_ is left empty.
WhatEnter_MovesWhere(t, o) ==
    /\ thr[t].pc = "ready"
    /\ objs[o] # NoObj
    /\ thr' = [thr EXCEPT ![t] =
                 [Attend(thr[t], o) EXCEPT
                    !.pc = "l91", !.ptr = NullPtr, !.txt = <<>>,
                    !.again = Repeats(thr[t], o, thr[t].msg)]]
    /\ msg_' = [msg_ EXCEPT ![FrameOf(t)] =
                   [live |-> TRUE, data |-> what_88_90(objs[o])]]
    /\ objs' = [objs EXCEPT ![o].where_ = ""]
    /\ UNCHANGED ctor

\* Caller t calls e.what(); lines 88-90 run.
WhatEnter(t, o) ==
    /\ thr[t].pc = "ready"
    /\ objs[o] # NoObj
    /\ thr' = [thr EXCEPT ![t] =
                 [Attend(thr[t], o) EXCEPT
                    !.pc = "l91", !.ptr = NullPtr, !.txt = <<>>,
                    !.again = Repeats(thr[t], o, thr[t].msg)]]
    /\ msg_' = [msg_ EXCEPT ![FrameOf(t)] =
                   [live |-> TRUE, data |-> what_88_90(objs[o])]]
    /\ UNCHANGED <<objs, ctor>>

\* Lines 91-92 of the call of what() that t is in.
WhatDescribe(t) ==
    /\ thr[t].pc = "l91"
    /\ thr' = [thr EXCEPT ![t].pc = "l93"]
    /\ msg_' = [msg_ EXCEPT ![FrameOf(t)].data =
                   what_91_92(@, objs[thr[t].self])]
    /\ UNCHANGED <<objs, ctor>>

\* Lines 93-95: msg_ += "!"; return msg_.c_str(); and msg_ goes out of
\* scope: the pointer is returned, the string it points into is destroyed.
WhatReturn(t) ==
    /\ thr[t].pc = "l93"
    /\ LET m == what_93(msg_[FrameOf(t)].data) IN
         /\ thr' = [thr EXCEPT ![t].pc = "ready", ![t].msg = <<m>>,
                               ![t].ptr = FrameOf(t)]
         /\ msg_' = [msg_ EXCEPT ![FrameOf(t)] = NoFrame]
    /\ UNCHANGED <<objs, ctor>>

\* What reading the characters at c.ptr delivers to caller c: the string
\* while it is alive; once it is destroyed the read is undefined: the bytes
\* it left behind (those it held when what() returned), or not.
Deref(c) ==
    IF msg_[c.ptr].live THEN {msg_[c.ptr].data} ELSE {c.msg[1], Clobbered}

\* The caller reads the text what() returned (prints it, copies it).
ReadWhat(t) ==
    /\ thr[t].pc = "ready"
    /\ thr[t].ptr # NullPtr
    /\ thr[t].txt = <<>>
    /\ \E s \in Deref(thr[t]) : thr' = [thr EXCEPT ![t].txt = <<s>>]
    /\ UNCHANGED <<objs, ctor, msg_>>

\* The caller drops the results it holds.
Done(t) ==
    /\ thr[t].pc = "ready"
    /\ thr[t] # Fresh
    /\ thr' = [thr EXCEPT ![t] = Fresh]
    /\ UNCHANGED <<objs, ctor, msg_>>

\* A single-threaded program: every error value of the catalog, one caller.
Next ==
    \/ \E o \in Objs, k \in FixedKinds, w \in Origins : Construct(o, k, w)
    \/ \E o \in Objs, w \in Origins, d \in Details : ConstructCustom(o, w, d)
    \/ \E o \in Objs : Destroy(o)
    \/ \E o \in Objs : CallTypeDescription(Main, o)
    \/ \E o \in Objs : WhatEnter(Main, o)
    \/ WhatDescribe(Main)
    \/ WhatReturn(Main)
    \/ ReadWhat(Main)
    \/ Done(Main)

Spec == Init /\ [][Next]_vars

\* Callers in several execution contexts, their calls interleaved line by line.
NextConc ==
    \/ \E o \in Objs, k \in ConcKinds, w \in Origins : Construct(o, k, w)
    \/ \E o \in Objs, w \in Origins, d \in Details : ConstructCustom(o, w, d)
    \/ \E t \in Threads, o \in Objs : CallTypeDescription(t, o)
    \/ \E t \in Threads, o \in Objs : WhatEnter(t, o)
    \/ \E t \in Threads : WhatDescribe(t)
    \/ \E t \in Threads : WhatReturn(t)
    \/ \E t \in Threads : Done(t)

SpecConc == Init /\ [][NextConc]_vars

----------------------------------------------------------------------------
\* Caller t holds a string type_description() returned.
HoldsTd(t) == thr[t].td # <<>>
\* Caller t holds the message a call of what() built.
HoldsMsg(t) == thr[t].msg # <<>>

\* The part of string s from position i on.
From(s, i) == SubSeq(s, i, Len(s))

\* C1: the message what() has built when it returns is exactly
\* "IN " + where + ": " + type_description() + "!": these four pieces in this
\* order and nothing else, the origin as the constructor got it, the
\* description as a call of type_description() on the value returns it.
C1_WhatIsExactConcatenation ==
    \A t \in Threads :
        HoldsMsg(t) =>
            LET m == thr[t].msg[1]
                w == thr[t].of.where
                n == Len(w)
            IN  /\ Len(m) >= n + 6
                /\ SubSeq(m, 1, 3) = "IN "
                /\ SubSeq(m, 4, n + 3) = w
                /\ SubSeq(m, n + 4, n + 5) = ": "
                /\ SubSeq(m, Len(m), Len(m)) = "!"
                /\ HoldsTd(t) => SubSeq(m, n + 6, Len(m) - 1) = thr[t].td[1]
                /\ thr[t].self # 0 =>
                       SubSeq(m, n + 6, Len(m) - 1)
                           = type_description(objs[thr[t].self])

\* C1 witness: what() and type_description() have both returned for a value
\* constructed with the empty origin.
C1_Witness ==
    \E t \in Threads :
        /\ HoldsMsg(t) /\ HoldsTd(t) /\ thr[t].self # 0
        /\ thr[t].of.where = ""

\* C2: what the caller reads through the pointer what() returned, while the
\* error value exists, is the message what() built.
C2_ReturnedTextIsLive ==
    \A t \in Threads :
        (thr[t].txt # <<>> /\ thr[t].self # 0) =>
            thr[t].txt[1] =
                "IN " \o objs[thr[t].self].where_ \o ": "
                      \o type_description(objs[thr[t].self]) \o "!"

\* The descriptions C3 lists (its list breaks off after DimsMismatchRvector),
\* and PermMismatchDims from the scenario of the specification.
C3_D ==
    [
     Unknown |-> "UNKNOWN EXCEPTION",
     ZeroSize |-> "Object has zero size",
     MatrixNotSquare |-> "Matrix is not square",
     MatrixNotCvector |-> "Matrix is not a column vector",
     MatrixNotRvector |-> "Matrix is not a row vector",
     MatrixNotVector |-> "Matrix is not a vector",
     MatrixNotSquareNorCvector |-> "Matrix is not square nor column vector",
     MatrixNotSquareNorRvector |-> "Matrix is not square nor row vector",
     MatrixNotSquareNorVector |-> "Matrix is not square nor vector",
     MatrixMismatchSubsys |-> "Matrix mismatch subsystems",
     DimsInvalid |-> "Invalid dimension(s)",
     DimsNotEqual |-> "Dimensions not equal",
     DimsMismatchMatrix |-> "Dimension(s) mismatch matrix size",
     DimsMismatchCvector |-> "Dimension(s) mismatch column vector size",
     DimsMismatchRvector |-> "Dimension(s) mismatch row vector size",
     PermMismatchDims |-> "Permutation mismatch dimensions"
    ]

\* C3: type_description() of a value of a fixed kind K returns D(K) for
\* the kinds whose D the claim lists, and for every fixed kind the string it
\* returns is the one a value of that kind returns with any other origin.
C3_FixedDescription ==
    \A t \in Threads :
        (HoldsTd(t) /\ thr[t].of.kind \in FixedKinds) =>
            LET k == thr[t].of.kind IN
            /\ k \in DOMAIN C3_D => thr[t].td[1] = C3_D[k]
            /\ \A w \in Origins :
                 type_description(FixedException(k, w)) = thr[t].td[1]

\* C3 witness: type_description() has returned for a DimsMismatchRvector
\* constructed with the empty origin.
C3_Witness ==
    \E t \in Threads :
        /\ HoldsTd(t)
        /\ thr[t].of = [kind |-> "DimsMismatchRvector", where |-> ""]

\* C4: type_description() of CustomException(origin, detail) returns
\* "CUSTOM EXCEPTION " followed by the detail, character for character.
C4_CustomDescription ==
    \A t \in Threads :
        (HoldsTd(t) /\ thr[t].of.kind = Custom) =>
            LET d == thr[t].td[1] IN
            /\ d = "CUSTOM EXCEPTION " \o thr[t].of.what
            /\ Len(d) = 17 + Len(thr[t].of.what)
            /\ SubSeq(d, 1, 17) = "CUSTOM EXCEPTION "
            /\ From(d, 18) = thr[t].of.what

\* C4 witness: type_description() has returned for a CustomException whose
\* detail holds ':' and '!'.
C4_Witness ==
    \E t \in Threads :
        /\ HoldsTd(t)
        /\ thr[t].of.kind = Custom
        /\ thr[t].of.what = "negative: probability!"

\* C5: whatever calls of type_description() and what() have run on it, an
\* error value has the kind, the origin and (CustomException) the detail its
\* constructor was given.
C5_ValueNeverChanges ==
    \A o \in Objs :
        objs[o] # NoObj =>
            /\ objs[o].kind = ctor[o].kind
            /\ objs[o].where_ = ctor[o].where
            /\ objs[o].kind = Custom => objs[o].what_ = ctor[o].what
            /\ DOMAIN objs[o] =
                 IF ctor[o].kind = Custom THEN {"kind", "where_", "what_"}
                                          ELSE {"kind", "where_"}

\* C5 witness: both type_description() and what() have returned, what() more
\* than once, on a CustomException that still exists.
C5_Witness ==
    \E t \in Threads :
        /\ HoldsTd(t) /\ HoldsMsg(t)
        /\ thr[t].pc = "ready" /\ thr[t].again = "same"
        /\ thr[t].self # 0 /\ objs[thr[t].self].kind = Custom
        /\ objs[thr[t].self].where_ # "" /\ objs[thr[t].self].what_ # ""

\* C6: a call of type_description() or of what() on a value returns what the
\* earlier call of the same function on that value returned, whichever calls
\* ran in between.
C6_RepeatedCallsAgree ==
    [][\A t \in Threads :
          (thr'[t].again = "same" /\ thr'[t].of = thr[t].of) =>
              /\ (HoldsTd(t) /\ thr'[t].td # <<>>) => thr'[t].td = thr[t].td
              /\ (HoldsMsg(t) /\ thr'[t].msg # <<>>) =>
                     thr'[t].msg = thr[t].msg]_vars

\* C6 witness: a repeated call has returned and the caller holds the results
\* of both functions.
C6_Witness ==
    \E t \in Threads :
        /\ thr[t].pc = "ready" /\ thr[t].again = "same"
        /\ HoldsTd(t) /\ HoldsMsg(t)

\* C7: a description is never empty; the description a fixed kind returned
\* is the one every value of that kind returns and no value of another fixed
\* kind returns.
C7_DescriptionsOneToOne ==
    \A t \in Threads :
        HoldsTd(t) =>
            /\ Len(thr[t].td[1]) > 0
            /\ thr[t].of.kind \in FixedKinds =>
                 \A o \in Objs :
                    (objs[o] # NoObj /\ objs[o].kind \in FixedKinds) =>
                        (type_description(objs[o]) = thr[t].td[1]
                            <=> objs[o].kind = thr[t].of.kind)

\* C7 witness: the caller holds the description of a value of one fixed
\* kind while a value of another fixed kind exists.
C7_Witness ==
    \E t \in Threads, o \in Objs :
        /\ HoldsTd(t) /\ thr[t].of.kind \in FixedKinds
        /\ objs[o] # NoObj /\ objs[o].kind \in FixedKinds
        /\ objs[o].kind # thr[t].of.kind

\* e is an object of one of the 31 constructible classes.
IsErrorValue(e) ==
    /\ e.kind \in Kinds
    /\ DOMAIN e = IF e.kind = Custom THEN {"kind", "where_", "what_"}
                                     ELSE {"kind", "where_"}

\* C8: every construction yields an error value of the kind asked for that
\* stores the origin (and detail) it was given, unchanged.
C8_ConstructionNeverFails ==
    [][\A o \in Objs :
          (objs[o] = NoObj /\ objs'[o] # NoObj) =>
              /\ IsErrorValue(objs'[o])
              /\ objs'[o].kind = ctor'[o].kind
              /\ objs'[o].where_ = ctor'[o].where
              /\ objs'[o].kind = Custom => objs'[o].what_ = ctor'[o].what]_vars

\* C8 witness: a value constructed with the empty origin exists.
C8_Witness ==
    \E o \in Objs : objs[o] # NoObj /\ ctor[o].where = ""

C10_EqualValuesRenderEqual ==
    [][\A t \in Threads :
          (thr'[t].again = "equal" /\ thr'[t].of = thr[t].of) =>
              /\ (HoldsTd(t) /\ thr'[t].td # <<>>) => thr'[t].td = thr[t].td
              /\ (HoldsMsg(t) /\ thr'[t].msg # <<>>) =>
                     thr'[t].msg = thr[t].msg]_vars

\* C10 witness: what() has returned for a value constructed with the
\* arguments of the value the caller's earlier message came from.
C10_Witness ==
    \E t \in Threads :
        /\ thr[t].pc = "ready" /\ thr[t].again = "equal"
        /\ HoldsMsg(t) /\ thr[t].ptr # NullPtr

\* C11: among values constructed with one origin the message tells the
\* variant: a live value whose what() message is the one the caller holds has
\* the kind, and for CustomException the detail, of the value that message
\* came from.  No description of a fixed kind starts with "CUSTOM EXCEPTION ",
\* and no description is the one of the base class.
C11_MessageIdentifiesVariant ==
    \A t \in Threads :
        /\ HoldsMsg(t) =>
             \A o \in Objs :
                (/\ objs[o] # NoObj
                 /\ ctor[o].where = thr[t].of.where
                 /\ Exception_what(objs[o]) = thr[t].msg[1])
                    => ctor[o] = thr[t].of
        /\ HoldsTd(t) =>
             LET d == thr[t].td[1] IN
             /\ d # Exception_type_description
             /\ thr[t].of.kind \in FixedKinds =>
                  ~(Len(d) >= 17 /\ SubSeq(d, 1, 17) = "CUSTOM EXCEPTION ")

\* C11 witness: the caller holds the message and the description of a
\* CustomException with empty detail while a value of a fixed kind
\* constructed with the same origin exists.
C11_Witness ==
    \E t \in Threads, o \in Objs :
        /\ HoldsMsg(t) /\ HoldsTd(t)
        /\ thr[t].of.kind = Custom /\ thr[t].of.what = ""
        /\ objs[o] # NoObj /\ objs[o].kind \in FixedKinds
        /\ ctor[o].where = thr[t].of.where

============================================================================
